---- MODULE Spec2Model ----
(***************************************************************************)
(* Model of data-swiss-knife's query runner:                               *)
(*   - query_runner/parameters.py : Parameter, ParameterManager            *)
(*   - query_runner/executor.py   : execute_single_query,                  *)
(*     execute_and_stream, ThreadedQueryExecutor                           *)
(*   - query_runner/gui.py        : the progress callback of _run_queries  *)
(*                                                                         *)
(* Two specifications share the variables:                                 *)
(*   Spec    the threaded executor (the caller thread, the pool's worker   *)
(*           threads, the Tk main thread that runs deferred updates)       *)
(*   SpecPM  the ParameterManager under its operations                     *)
(* LiveSpec is Spec with the fairness the thread scheduler gives.          *)
(*                                                                         *)
(* Timing fields of ExecutionStats (start_time, elapsed_time,              *)
(* avg_time_per_query, estimated_remaining) and QueryResult.execution_time *)
(* are wall-clock floats that no counter depends on; they are left out.    *)
(***************************************************************************)
EXTENDS Integers, Sequences, FiniteSets, TLC

(***************************************************************************)
(* Bounds of the model                                                     *)
(***************************************************************************)
\* longest list of combinations handed to one run
MaxTasks == 2
\* largest max_workers the executor is constructed with
MaxWorkers == 2
\* number of runs on one executor object
MaxRuns == 2
\* parameter values are the integers 1..MaxVal
MaxVal == 2
\* longest value list of one Parameter
MaxValues == 2
\* longest SQL template given to substitute_params, in characters
MaxTemplate == 4

None == "<None>"

Names == {"a", "b"}
Values == 1..MaxVal

\* parameters.py:10
PARAM_TYPES == {"text", "number", "date"}

VARIABLES
    \* ---- ParameterManager ----
    parameters,        \* self.parameters: insertion-ordered, a sequence of Parameter
    lastOp,            \* the last call made on the manager or on a Parameter
    generated,         \* a list a caller got from generate_combinations and kept
    \* ---- ThreadedQueryExecutor ----
    max_workers,       \* self.max_workers
    progress_callback, \* self.progress_callback: None, or the callback registered
    results,           \* self.results
    statsRef,          \* self.stats: which ExecutionStats object it refers to
    statsHeap,         \* the ExecutionStats objects created so far
    \* ---- one call of execute / execute_with_streaming ----
    pc,                \* position of the calling thread; "returned": execute has
                       \* returned and the executor was not touched since
    mode,              \* "execute" or "streaming"
    query,             \* kind of statement of the template: "select" or "dml"
    combos,            \* param_combinations
    submitted,         \* number of executor.submit calls done
    workQueue,         \* the pool's work queue (task indexes, FIFO)
    worker,            \* per pool thread: the task it runs, or 0
    future,            \* the finished futures: task index -> its QueryResult
    acFinished,        \* as_completed: futures found finished when it started
    acWaiter,          \* as_completed: waiter.finished_futures, completion order
    acPending,         \* as_completed: futures still pending for it
    runs,              \* number of execute calls started on this executor
    \* ---- observers ----
    cbLog,             \* what each callback invocation of the run read
    uiQueue,           \* Tk after() queue: deferred updates of on_progress
    shown,             \* what the last deferred update displayed
    connCalls,         \* per task: number of connector execute calls
    raised,            \* tasks whose connector call raised
    taskLog            \* per finished task: what the connector and the sink did

\* the manager, and what its callers observed
pmVars == <<parameters, lastOp, generated>>
exVars == <<max_workers, progress_callback, results, statsRef, statsHeap, pc, mode,
            query, combos, submitted, workQueue, worker, future, acFinished,
            acWaiter, acPending, runs, cbLog, uiQueue, shown, connCalls, raised,
            taskLog>>
vars == <<parameters, lastOp, generated, max_workers, progress_callback, results,
          statsRef, statsHeap, pc, mode, query, combos, submitted, workQueue, worker,
          future, acFinished, acWaiter, acPending, runs, cbLog, uiQueue, shown,
          connCalls, raised, taskLog>>

(***************************************************************************)
(* Helpers                                                                 *)
(***************************************************************************)
Range(s) == {s[i] : i \in 1..Len(s)}

RECURSIVE Flatten(_)
Flatten(ss) == IF ss = <<>> THEN <<>> ELSE Head(ss) \o Flatten(Tail(ss))

SeqsUpTo(S, n) == UNION {[1..k -> S] : k \in 0..n}

(***************************************************************************)
(* parameters.py                                                           *)
(***************************************************************************)
\* Parameter(name=name, param_type=param_type): values=[], source_type="manual"
NewParameter(name, param_type) ==
    [name |-> name, param_type |-> param_type, values |-> <<>>,
     source_type |-> "manual"]

IndexOf(ps, name) ==
    IF \E i \in 1..Len(ps) : ps[i].name = name
    THEN CHOOSE i \in 1..Len(ps) : ps[i].name = name
    ELSE 0

\* itertools.product(*value_lists) zipped with names: the first list varies
\* slowest, the last fastest; a combination is the ordered dict of the pairs
\* the product with the loops nested the other way round: the first parameter
\* varies fastest
RECURSIVE ProductFirstFastest(_)
ProductFirstFastest(pvs) ==
    IF pvs = <<>> THEN << <<>> >>
    ELSE LET p    == Head(pvs)
             rest == ProductFirstFastest(Tail(pvs))
         IN Flatten([j \in 1..Len(rest) |->
                        [i \in 1..Len(p.values) |-> <<(<<p.name, p.values[i]>>)>> \o rest[j]]])

RECURSIVE Product(_)
Product(pvs) ==
    IF pvs = <<>> THEN << <<>> >>
    ELSE LET p    == Head(pvs)
             rest == Product(Tail(pvs))
         IN Flatten([i \in 1..Len(p.values) |->
                        [j \in 1..Len(rest) |-> <<(<<p.name, p.values[i]>>)>> \o rest[j]]])

\* `return []` in place of `return [{}]` in the two early returns
generate_combinations_NoEmptyCombination(ps) ==
    IF ps = <<>> THEN <<>>
    ELSE LET params_with_values == SelectSeq(ps, LAMBDA p : p.values # <<>>)
         IN IF params_with_values = <<>> THEN <<>>
            ELSE Product(params_with_values)

\* the product over every declared parameter, those without values included
generate_combinations_Unfiltered(ps) ==
    IF ps = <<>> THEN << <<>> >> ELSE Product(ps)

\* ParameterManager.generate_combinations
generate_combinations(ps) ==
    IF ps = <<>> THEN << <<>> >>
    ELSE LET params_with_values == SelectSeq(ps, LAMBDA p : p.values # <<>>)
         IN IF params_with_values = <<>> THEN << <<>> >>
            ELSE Product(params_with_values)

RECURSIVE CountLoop(_)
CountLoop(ps) ==
    IF ps = <<>> THEN 1
    ELSE (IF Head(ps).values # <<>> THEN Len(Head(ps).values) ELSE 1) * CountLoop(Tail(ps))

\* the loop without its `if param.values` test: an empty list multiplies by 0
RECURSIVE CountLoopNoGuard(_)
CountLoopNoGuard(ps) ==
    IF ps = <<>> THEN 1
    ELSE Len(Head(ps).values) * CountLoopNoGuard(Tail(ps))

get_combination_count_NoGuard(ps) ==
    IF ps # <<>> THEN CountLoopNoGuard(ps) ELSE 0

\* `return count` without `if self.parameters else 0`
get_combination_count_NoZero(ps) == CountLoop(ps)

\* ParameterManager.get_combination_count
get_combination_count(ps) ==
    IF ps # <<>> THEN CountLoop(ps) ELSE 0

\* a call on the manager: the method, the name and the type it was given
Op(op, name, param_type) == [op |-> op, name |-> name, param_type |-> param_type]
NoOp == Op("__init__", "", "")

\* self.parameters[name] = Parameter(...) without the `if name not in` test:
\* the entry keeps its place in the dict and gets a new Parameter
add_parameter_Overwrite(name, param_type) ==
    /\ parameters' = IF IndexOf(parameters, name) = 0
                     THEN Append(parameters, NewParameter(name, param_type))
                     ELSE [parameters EXCEPT ![IndexOf(parameters, name)] =
                                                NewParameter(name, param_type)]
    /\ UNCHANGED <<generated, exVars>>

\* a new parameter put in front of the declared ones
add_parameter_First(name, param_type) ==
    /\ parameters' = IF IndexOf(parameters, name) = 0
                     THEN <<NewParameter(name, param_type)>> \o parameters
                     ELSE parameters
    /\ UNCHANGED <<generated, exVars>>

\* ParameterManager.add_parameter
add_parameter(name, param_type) ==
    /\ parameters' = IF IndexOf(parameters, name) = 0
                     THEN Append(parameters, NewParameter(name, param_type))
                     ELSE parameters
    /\ UNCHANGED <<generated, exVars>>

\* a combination without the pair of `name`
WithoutKey(combo, name) == SelectSeq(combo, LAMBDA kv : kv[1] # name)

\* combinations that are views on the manager: removing a parameter removes
\* its key from the lists handed out before
remove_parameter_Aliased(name) ==
    /\ parameters' = SelectSeq(parameters, LAMBDA p : p.name # name)
    /\ generated' = [k \in 1..Len(generated) |-> WithoutKey(generated[k], name)]
    /\ UNCHANGED exVars

\* ParameterManager.remove_parameter
remove_parameter(name) ==
    /\ parameters' = SelectSeq(parameters, LAMBDA p : p.name # name)
    /\ UNCHANGED <<generated, exVars>>

\* ParameterManager.clear_all
clear_all ==
    /\ parameters' = <<>>
    /\ UNCHANGED <<generated, exVars>>

SetValuesOf(name, vs) ==
    [i \in 1..Len(parameters) |->
        IF parameters[i].name = name
        THEN [parameters[i] EXCEPT !.values = vs]
        ELSE parameters[i]]

\* list.remove(value): drops the first occurrence
RemoveFirst(s, v) ==
    IF v \in Range(s)
    THEN LET k == CHOOSE i \in 1..Len(s) : s[i] = v /\ \A j \in 1..(i - 1) : s[j] # v
         IN SubSeq(s, 1, k - 1) \o SubSeq(s, k + 1, Len(s))
    ELSE s

\* self.values.append(parsed) without the `not in` test
add_value_NoDedupe(name, v) ==
    /\ IndexOf(parameters, name) # 0
    /\ LET p == parameters[IndexOf(parameters, name)]
       IN /\ Len(p.values) < MaxValues
          /\ parameters' = SetValuesOf(name, Append(p.values, v))
    /\ UNCHANGED <<generated, exVars>>

\* Parameter.add_value on a declared parameter, with a value that is not a
\* string (_parse returns it as it is)
add_value(name, v) ==
    /\ IndexOf(parameters, name) # 0
    /\ LET p == parameters[IndexOf(parameters, name)]
       IN /\ Len(p.values) < MaxValues
          /\ parameters' = SetValuesOf(name, IF v \in Range(p.values) THEN p.values
                                             ELSE Append(p.values, v))
    /\ UNCHANGED <<generated, exVars>>

\* Parameter.remove_value
remove_value(name, v) ==
    /\ IndexOf(parameters, name) # 0
    /\ parameters' = SetValuesOf(name,
                        RemoveFirst(parameters[IndexOf(parameters, name)].values, v))
    /\ UNCHANGED <<generated, exVars>>

\* Parameter.clear_values
clear_values(name) ==
    /\ IndexOf(parameters, name) # 0
    /\ parameters' = SetValuesOf(name, <<>>)
    /\ UNCHANGED <<generated, exVars>>

\* Parameter.set_values_raw
set_values_raw(name, vs) ==
    /\ IndexOf(parameters, name) # 0
    /\ parameters' = SetValuesOf(name, vs)
    /\ UNCHANGED <<generated, exVars>>

(***************************************************************************)
(* parameters.py: ranges.  A str given as a bound is the text of a date     *)
(* written in some format, of an integer, of a decimal number, or other     *)
(* text; a datetime.date is a record of year, month and day.                *)
(***************************************************************************)
Text(kind, fmt, y, m, d, n) ==
    [kind |-> kind, fmt |-> fmt, y |-> y, m |-> m, d |-> d, n |-> n]
DateText(fmt, y, m, d) == Text("date", fmt, y, m, d, 0)
IntText(n) == Text("int", "", 0, 0, 0, n)

\* Parameter.date_format, at its default
date_format == "%Y-%m-%d"

\* the texts typed as bounds: days around the end of a year and the end of
\* February of a leap year, a day that does not exist, a day written in
\* another format, integers, a decimal number and other text
BoundTexts ==
    {DateText(date_format, t[1], t[2], t[3]) :
        t \in {<<2023, 12, 31>>, <<2024, 1, 1>>, <<2024, 1, 3>>, <<2024, 2, 28>>,
               <<2024, 3, 1>>, <<2023, 2, 29>>}}
    \cup {DateText("%d-%m-%Y", 2024, 1, 1)}
    \cup {IntText(n) : n \in Values}
    \cup {Text("decimal", "", 0, 0, 0, 0), Text("other", "", 0, 0, 0, 0)}

Date(y, m, d) == [y |-> y, m |-> m, d |-> d]

IsLeap(y) == y % 4 = 0 /\ (y % 100 # 0 \/ y % 400 = 0)

DaysInMonth(y, m) ==
    IF m = 2 THEN (IF IsLeap(y) THEN 29 ELSE 28)
    ELSE IF m \in {4, 6, 9, 11} THEN 30 ELSE 31

RECURSIVE DaysBeforeMonth(_, _)
DaysBeforeMonth(y, m) ==
    IF m = 1 THEN 0 ELSE DaysBeforeMonth(y, m - 1) + DaysInMonth(y, m - 1)

DaysBeforeYear(y) ==
    365 * (y - 1) + ((y - 1) \div 4) - ((y - 1) \div 100) + ((y - 1) \div 400)

\* date.toordinal and date.fromordinal
toordinal(dt) == DaysBeforeYear(dt.y) + DaysBeforeMonth(dt.y, dt.m) + dt.d

fromordinal(n) ==
    LET y == CHOOSE y \in 2023..2025 :
                 DaysBeforeYear(y) < n /\ n <= DaysBeforeYear(y + 1)
        r == n - DaysBeforeYear(y)
        m == CHOOSE m \in 1..12 :
                 DaysBeforeMonth(y, m) < r /\ r <= DaysBeforeMonth(y, m) + DaysInMonth(y, m)
    IN Date(y, m, r - DaysBeforeMonth(y, m))

\* datetime.strptime(text, fmt).date(): ValueError (ok = FALSE) unless the
\* text is a day of the calendar written in that format
strptime(text, fmt) ==
    IF /\ text.kind = "date"
       /\ text.fmt = fmt
       /\ text.m \in 1..12
       /\ text.d \in 1..DaysInMonth(text.y, text.m)
    THEN [ok |-> TRUE, date |-> Date(text.y, text.m, text.d)]
    ELSE [ok |-> FALSE, date |-> Date(0, 0, 0)]

\* int(text): ValueError (ok = FALSE) unless the text is that of an integer
int(text) ==
    IF text.kind = "int" THEN [ok |-> TRUE, n |-> text.n] ELSE [ok |-> FALSE, n |-> 0]

\* while current <= end_date: dates.append(current); current += timedelta(days=1)
RECURSIVE DatesLoop(_, _)
DatesLoop(current, end_date) ==
    IF toordinal(current) <= toordinal(end_date)
    THEN <<current>> \o DatesLoop(fromordinal(toordinal(current) + 1), end_date)
    ELSE <<>>

\* the loop with `while current < end_date`
generate_date_range_ExclusiveEnd(start, end, fmt) ==
    IF strptime(start, fmt).ok /\ strptime(end, fmt).ok
    THEN LET all == DatesLoop(strptime(start, fmt).date, strptime(end, fmt).date)
         IN IF all = <<>> THEN <<>> ELSE SubSeq(all, 1, Len(all) - 1)
    ELSE <<>>

\* generate_date_range
generate_date_range(start, end, fmt) ==
    IF strptime(start, fmt).ok /\ strptime(end, fmt).ok
    THEN DatesLoop(strptime(start, fmt).date, strptime(end, fmt).date)
    ELSE <<>>

\* list(range(a, b))
range(a, b) == [k \in 1..(IF b > a THEN b - a ELSE 0) |-> a + k - 1]

\* the number branch with range(start_num, end_num)
RangeOf_ExclusiveEnd(param, start, end) ==
    IF param.param_type = "date"
    THEN [param EXCEPT !.values = generate_date_range(start, end, date_format),
                       !.source_type = "range"]
    ELSE IF param.param_type = "number" /\ int(start).ok /\ int(end).ok
         THEN [param EXCEPT !.values = range(int(start).n, int(end).n),
                            !.source_type = "range"]
         ELSE param

\* the Parameter after set_from_range(start, end)
RangeOf(param, start, end) ==
    IF param.param_type = "date"
    THEN [param EXCEPT !.values = generate_date_range(start, end, date_format),
                       !.source_type = "range"]
    ELSE IF param.param_type = "number" /\ int(start).ok /\ int(end).ok
         THEN [param EXCEPT !.values = range(int(start).n, int(end).n + 1),
                            !.source_type = "range"]
         ELSE param

\* Parameter.set_from_range, on the parameter declared as `name`
set_from_range(name, start, end) ==
    /\ IndexOf(parameters, name) # 0
    /\ parameters' = [parameters EXCEPT ![IndexOf(parameters, name)] =
                                           RangeOf(@, start, end)]
    /\ UNCHANGED <<generated, exVars>>

(***************************************************************************)
(* executor.py: records                                                    *)
(***************************************************************************)
\* a pandas DataFrame of one column, or None
NoData == [present |-> FALSE, rows |-> <<>>]
DataFrame(rows) == [present |-> TRUE, rows |-> rows]

\* @dataclass QueryResult; `task` is the future the result came from
QueryResult(task, params, data, error, row_count, rows_inserted) ==
    [task |-> task, params |-> params, data |-> data, error |-> error,
     row_count |-> row_count, rows_inserted |-> rows_inserted]

\* a stats object created without total=total: total keeps its default 0
ExecutionStatsDefaultTotal(total) ==
    [total |-> 0, completed |-> 0, success |-> 0, errors |-> 0,
     rows_fetched |-> 0, rows_inserted |-> 0]

\* @dataclass ExecutionStats(total=total, completed=0, ...)
ExecutionStats(total) ==
    [total |-> total, completed |-> 0, success |-> 0, errors |-> 0,
     rows_fetched |-> 0, rows_inserted |-> 0]

\* Python truthiness of result.error: None and "" are false
Truthy(error) == error # None /\ error # ""

(***************************************************************************)
(* The backend behind psycopg: one table with one column; the statement    *)
(* selects (or updates) the rows equal to its parameter, every row when    *)
(* the combination binds nothing.  A call may instead raise.               *)
(***************************************************************************)
Table == <<2, 2, 3>>

Matching(params) ==
    IF params = <<>> THEN Table
    ELSE SelectSeq(Table, LAMBDA r : r = params[1][2])

\* messages of the exceptions the connector raises; str(e) may be empty
Failures == {"", "connection refused"}

\* the lists of combinations a run is called with: the single empty
\* combination [{}], or up to MaxTasks bindings of one parameter (a value may
\* repeat, as after set_values_raw)
CombinationLists ==
    {<< <<>> >>} \cup SeqsUpTo({<< <<"a", v>> >> : v \in Values}, MaxTasks)

(***************************************************************************)
(* executor.py: the work of one task, run by a pool thread                 *)
(***************************************************************************)
\* stream_insert_df: 0 for an empty frame and when the COPY raises, else len(df)
stream_insert_df(rows, sinkOk) ==
    IF rows = <<>> THEN 0
    ELSE IF sinkOk THEN Len(rows) ELSE 0

\* rows_inserted=len(df) in the QueryResult of a successful SELECT
execute_single_query_CountsInserted(task, q, params, outcome) ==
    IF outcome # None
    THEN QueryResult(task, params, NoData, outcome, 0, 0)
    ELSE IF q = "select"
         THEN QueryResult(task, params, DataFrame(Matching(params)), None,
                          Len(Matching(params)), Len(Matching(params)))
         ELSE QueryResult(task, params, NoData, None, Len(Matching(params)), 0)

\* an except branch that reports a fixed text in place of str(e)
execute_single_query_FixedMessage(task, q, params, outcome) ==
    IF outcome # None
    THEN QueryResult(task, params, NoData, "query failed", 0, 0)
    ELSE IF q = "select"
         THEN QueryResult(task, params, DataFrame(Matching(params)), None,
                          Len(Matching(params)), 0)
         ELSE QueryResult(task, params, NoData, None, Len(Matching(params)), 0)

\* a DML branch that leaves row_count at its default instead of cur.rowcount
execute_single_query_DmlZero(task, q, params, outcome) ==
    IF outcome # None
    THEN QueryResult(task, params, NoData, outcome, 0, 0)
    ELSE IF q = "select"
         THEN QueryResult(task, params, DataFrame(Matching(params)), None,
                          Len(Matching(params)), 0)
         ELSE QueryResult(task, params, NoData, None, 0, 0)

\* execute_single_query: outcome None means cur.execute did not raise
execute_single_query(task, q, params, outcome) ==
    IF outcome # None
    THEN QueryResult(task, params, NoData, outcome, 0, 0)
    ELSE IF q = "select"
         THEN QueryResult(task, params, DataFrame(Matching(params)), None,
                          Len(Matching(params)), 0)
         ELSE QueryResult(task, params, NoData, None, Len(Matching(params)), 0)

\* rows_inserted=len(df), whatever stream_insert_df returned
execute_and_stream_CountsFetched(task, q, params, outcome, sinkOk) ==
    IF outcome # None
    THEN QueryResult(task, params, NoData, outcome, 0, 0)
    ELSE IF q = "select"
         THEN QueryResult(task, params, NoData, None, Len(Matching(params)),
                          Len(Matching(params)))
         ELSE QueryResult(task, params, NoData, None, Len(Matching(params)), 0)

\* a failure of the bulk insert reported as the task's error
execute_and_stream_SinkFailureIsError(task, q, params, outcome, sinkOk) ==
    IF outcome # None
    THEN QueryResult(task, params, NoData, outcome, 0, 0)
    ELSE IF q = "select"
         THEN IF Matching(params) # <<>> /\ ~sinkOk
              THEN QueryResult(task, params, NoData, "insert failed", 0, 0)
              ELSE QueryResult(task, params, NoData, None, Len(Matching(params)),
                               stream_insert_df(Matching(params), sinkOk))
         ELSE QueryResult(task, params, NoData, None, Len(Matching(params)), 0)

\* execute_and_stream
execute_and_stream(task, q, params, outcome, sinkOk) ==
    IF outcome # None
    THEN QueryResult(task, params, NoData, outcome, 0, 0)
    ELSE IF q = "select"
         THEN QueryResult(task, params, NoData, None, Len(Matching(params)),
                          stream_insert_df(Matching(params), sinkOk))
         ELSE QueryResult(task, params, NoData, None, Len(Matching(params)), 0)

(***************************************************************************)
(* ThreadedQueryExecutor                                                   *)
(***************************************************************************)
stats == statsHeap[statsRef]

N == Len(combos)

\* ThreadPoolExecutor(max_workers=self.max_workers)
\* ThreadPoolExecutor() without the argument: a pool wider than max_workers
PoolSizeDefault == MaxWorkers + 1

PoolSize == max_workers

Running == {worker[w] : w \in DOMAIN worker} \ {0}

\* what a callback reads of the stats object it is handed
View(s) == [total |-> s.total, completed |-> s.completed, success |-> s.success,
            errors |-> s.errors, rows_fetched |-> s.rows_fetched,
            rows_inserted |-> s.rows_inserted]

\* what the deferred update of on_progress formats:
\* f"Running: {stats.completed}/{stats.total} ({stats.success} ok, {stats.errors} errors)"
Label(s) == [total |-> s.total, completed |-> s.completed, success |-> s.success,
             errors |-> s.errors]

\* ThreadedQueryExecutor.set_progress_callback, between two runs
set_progress_callback(cb) ==
    /\ pc \in {"idle", "returned"}
    /\ runs < MaxRuns
    /\ progress_callback # cb
    /\ progress_callback' = cb
    /\ pc' = "idle"
    /\ UNCHANGED <<pmVars, taskLog, max_workers, results, statsRef, statsHeap, mode,
                   query, combos, submitted, workQueue, worker, future, acFinished,
                   acWaiter, acPending, runs, cbLog, uiQueue, shown, connCalls, raised>>

\* entry of execute / execute_with_streaming up to the creation of the pool.
\* A caller starts a run only when the deferred updates of the previous one
\* have run: _run_queries returns while is_running, which is reset by
\* _on_queries_complete, queued with after() behind every update of the run
RunStartReusesStats(m, q, pcs) ==
    /\ pc \in {"idle", "returned"}
    /\ runs < MaxRuns
    /\ uiQueue = <<>>
    /\ runs' = runs + 1
    /\ mode' = m
    /\ query' = q
    /\ combos' = pcs
    /\ results' = <<>>
    /\ statsHeap' = [statsHeap EXCEPT ![statsRef] = ExecutionStats(Len(pcs))]
    /\ submitted' = 0
    /\ workQueue' = <<>>
    /\ worker' = [w \in 1..PoolSize |-> 0]
    /\ future' = <<>>
    /\ acFinished' = {}
    /\ acWaiter' = <<>>
    /\ acPending' = {}
    /\ cbLog' = <<>>
    /\ connCalls' = [i \in 1..Len(pcs) |-> 0]
    /\ raised' = {}
    /\ taskLog' = <<>>
    /\ pc' = "submit"
    /\ UNCHANGED <<pmVars, max_workers, progress_callback, uiQueue, shown, statsRef>>

\* a run that appends to the results of the run before
RunStartKeepsResults(m, q, pcs) ==
    /\ pc \in {"idle", "returned"}
    /\ runs < MaxRuns
    /\ uiQueue = <<>>
    /\ runs' = runs + 1
    /\ mode' = m
    /\ query' = q
    /\ combos' = pcs
    /\ results' = results
    /\ statsHeap' = Append(statsHeap, ExecutionStats(Len(pcs)))
    /\ statsRef' = Len(statsHeap) + 1
    /\ submitted' = 0
    /\ workQueue' = <<>>
    /\ worker' = [w \in 1..PoolSize |-> 0]
    /\ future' = <<>>
    /\ acFinished' = {}
    /\ acWaiter' = <<>>
    /\ acPending' = {}
    /\ cbLog' = <<>>
    /\ connCalls' = [i \in 1..Len(pcs) |-> 0]
    /\ raised' = {}
    /\ taskLog' = <<>>
    /\ pc' = "submit"
    /\ UNCHANGED <<pmVars, max_workers, progress_callback, uiQueue, shown>>

RunStart(m, q, pcs) ==
    /\ pc \in {"idle", "returned"}
    /\ runs < MaxRuns
    /\ uiQueue = <<>>
    /\ runs' = runs + 1
    /\ mode' = m
    /\ query' = q
    /\ combos' = pcs
    /\ results' = <<>>
    /\ statsHeap' = Append(statsHeap, ExecutionStats(Len(pcs)))
    /\ statsRef' = Len(statsHeap) + 1
    /\ submitted' = 0
    /\ workQueue' = <<>>
    /\ worker' = [w \in 1..PoolSize |-> 0]
    /\ future' = <<>>
    /\ acFinished' = {}
    /\ acWaiter' = <<>>
    /\ acPending' = {}
    /\ cbLog' = <<>>
    /\ connCalls' = [i \in 1..Len(pcs) |-> 0]
    /\ raised' = {}
    /\ taskLog' = <<>>
    /\ pc' = "submit"
    /\ UNCHANGED <<pmVars, max_workers, progress_callback, uiQueue, shown>>

\* ThreadedQueryExecutor.execute
execute(q, pcs) == RunStart("execute", q, pcs)

\* ThreadedQueryExecutor.execute_with_streaming
execute_with_streaming(q, pcs) == RunStart("streaming", q, pcs)

\* executor.submit(...) for the next combination of the comprehension
Submit ==
    /\ pc = "submit"
    /\ submitted < N
    /\ submitted' = submitted + 1
    /\ workQueue' = Append(workQueue, submitted + 1)
    /\ UNCHANGED <<pmVars, taskLog, max_workers, progress_callback, results, statsRef,
                   statsHeap, pc, mode, query, combos, worker, future, acFinished,
                   acWaiter, acPending, runs, cbLog, uiQueue, shown, connCalls, raised>>

\* an as_completed that only waits for the futures still pending
AsCompletedStartPendingOnly ==
    /\ pc = "submit"
    /\ submitted = N
    /\ acFinished' = {}
    /\ acPending' = (1..N) \ DOMAIN future
    /\ acWaiter' = <<>>
    /\ pc' = "loop"
    /\ UNCHANGED <<pmVars, taskLog, max_workers, progress_callback, results, statsRef,
                   statsHeap, mode, query, combos, submitted, workQueue, worker, future,
                   runs, cbLog, uiQueue, shown, connCalls, raised>>

\* as_completed(futures): under the futures' locks, split them into the ones
\* already finished and the pending ones, and install the waiter
AsCompletedStart ==
    /\ pc = "submit"
    /\ submitted = N
    /\ acFinished' = DOMAIN future
    /\ acPending' = (1..N) \ DOMAIN future
    /\ acWaiter' = <<>>
    /\ pc' = "loop"
    /\ UNCHANGED <<pmVars, taskLog, max_workers, progress_callback, results, statsRef,
                   statsHeap, mode, query, combos, submitted, workQueue, worker, future,
                   runs, cbLog, uiQueue, shown, connCalls, raised>>

\* a pool thread takes the next work item and starts the task's connector call;
\* the threads are interchangeable, so the lowest idle one takes it
WorkerTake(w) ==
    /\ w \in DOMAIN worker
    /\ worker[w] = 0
    /\ \A v \in DOMAIN worker : v < w => worker[v] # 0
    /\ workQueue # <<>>
    /\ worker' = [worker EXCEPT ![w] = Head(workQueue)]
    /\ workQueue' = Tail(workQueue)
    /\ connCalls' = [connCalls EXCEPT ![Head(workQueue)] = @ + 1]
    /\ UNCHANGED <<pmVars, taskLog, max_workers, progress_callback, results, statsRef,
                   statsHeap, pc, mode, query, combos, submitted, future, acFinished,
                   acWaiter, acPending, runs, cbLog, uiQueue, shown, raised>>

\* tasks that share one connection: once a call has raised, the connection is
\* broken and every later task fails on it
TaskResultSharedConn(task, outcome, sinkOk) ==
    IF raised # {} \/ outcome # None
    THEN QueryResult(task, combos[task], NoData,
                     IF outcome # None THEN outcome ELSE "connection refused", 0, 0)
    ELSE IF mode = "streaming"
         THEN execute_and_stream(task, query, combos[task], outcome, sinkOk)
         ELSE execute_single_query(task, query, combos[task], outcome)

\* the function submitted for a task, applied to its combination:
\* execute_and_stream in execute_with_streaming, execute_single_query in execute
TaskResult(task, outcome, sinkOk) ==
    IF mode = "streaming"
    THEN execute_and_stream(task, query, combos[task], outcome, sinkOk)
    ELSE execute_single_query(task, query, combos[task], outcome)

\* what happened in the task, as the connector and the sink saw it: the
\* message of the exception cur.execute raised (None if it did not raise),
\* whether stream_insert_df was called, and the count it returned
TaskLogEntry(task, outcome, sinkOk) ==
    LET streamed == mode = "streaming" /\ outcome = None /\ query = "select"
    IN [outcome |-> outcome,
        sink_called |-> streamed,
        sink_reported |-> IF streamed
                          THEN stream_insert_df(Matching(combos[task]), sinkOk)
                          ELSE 0]

\* a finished future that does not wake the waiter of as_completed
WorkerFinishNoNotify(w, outcome, sinkOk) ==
    /\ w \in DOMAIN worker
    /\ worker[w] # 0
    /\ LET task == worker[w]
       IN /\ future' = [i \in DOMAIN future \cup {task} |->
                           IF i = task THEN TaskResult(task, outcome, sinkOk)
                           ELSE future[i]]
          /\ raised' = IF outcome # None THEN raised \cup {task} ELSE raised
          /\ taskLog' = [i \in DOMAIN taskLog \cup {task} |->
                            IF i = task THEN TaskLogEntry(task, outcome, sinkOk)
                            ELSE taskLog[i]]
    /\ worker' = [worker EXCEPT ![w] = 0]
    /\ UNCHANGED <<pmVars, max_workers, progress_callback, results, statsRef,
                   statsHeap, pc, mode, query, combos, submitted, workQueue, acFinished,
                   acWaiter, acPending, runs, cbLog, uiQueue, shown, connCalls>>

\* a task that counts its own completion in self.stats, from the pool thread
WorkerFinishWritesStats(w, outcome, sinkOk) ==
    /\ w \in DOMAIN worker
    /\ worker[w] # 0
    /\ LET task == worker[w]
       IN /\ future' = [i \in DOMAIN future \cup {task} |->
                           IF i = task THEN TaskResult(task, outcome, sinkOk)
                           ELSE future[i]]
          /\ acWaiter' = IF task \in acPending THEN Append(acWaiter, task) ELSE acWaiter
          /\ raised' = IF outcome # None THEN raised \cup {task} ELSE raised
          /\ taskLog' = [i \in DOMAIN taskLog \cup {task} |->
                            IF i = task THEN TaskLogEntry(task, outcome, sinkOk)
                            ELSE taskLog[i]]
    /\ worker' = [worker EXCEPT ![w] = 0]
    /\ statsHeap' = [statsHeap EXCEPT ![statsRef].completed = @ + 1]
    /\ UNCHANGED <<pmVars, max_workers, progress_callback, results, statsRef,
                   pc, mode, query, combos, submitted, workQueue, acFinished,
                   acPending, runs, cbLog, uiQueue, shown, connCalls>>

\* a task whose connector call raised is put back on the work queue once
\* instead of finishing its future
WorkerFinishRetries(w, outcome, sinkOk) ==
    /\ w \in DOMAIN worker
    /\ worker[w] # 0
    /\ LET task == worker[w]
           again == outcome # None /\ connCalls[task] < 2
       IN /\ future' = IF again THEN future
                       ELSE [i \in DOMAIN future \cup {task} |->
                                IF i = task THEN TaskResult(task, outcome, sinkOk)
                                ELSE future[i]]
          /\ workQueue' = IF again THEN Append(workQueue, task) ELSE workQueue
          /\ acWaiter' = IF ~again /\ task \in acPending THEN Append(acWaiter, task)
                         ELSE acWaiter
          /\ raised' = IF outcome # None THEN raised \cup {task} ELSE raised
          /\ taskLog' = IF again THEN taskLog
                        ELSE [i \in DOMAIN taskLog \cup {task} |->
                                 IF i = task THEN TaskLogEntry(task, outcome, sinkOk)
                                 ELSE taskLog[i]]
    /\ worker' = [worker EXCEPT ![w] = 0]
    /\ UNCHANGED <<pmVars, max_workers, progress_callback, results, statsRef,
                   statsHeap, pc, mode, query, combos, submitted, acFinished,
                   acPending, runs, cbLog, uiQueue, shown, connCalls>>

\* the task of pool thread w ends: its function returns a QueryResult, the
\* future is set finished and the waiter of as_completed, if installed, is
\* notified
WorkerFinish(w, outcome, sinkOk) ==
    /\ w \in DOMAIN worker
    /\ worker[w] # 0
    /\ LET task == worker[w]
       IN /\ future' = [i \in DOMAIN future \cup {task} |->
                           IF i = task THEN TaskResult(task, outcome, sinkOk)
                           ELSE future[i]]
          /\ acWaiter' = IF task \in acPending THEN Append(acWaiter, task) ELSE acWaiter
          /\ raised' = IF outcome # None THEN raised \cup {task} ELSE raised
          /\ taskLog' = [i \in DOMAIN taskLog \cup {task} |->
                            IF i = task THEN TaskLogEntry(task, outcome, sinkOk)
                            ELSE taskLog[i]]
    /\ worker' = [worker EXCEPT ![w] = 0]
    /\ UNCHANGED <<pmVars, max_workers, progress_callback, results, statsRef,
                   statsHeap, pc, mode, query, combos, submitted, workQueue, acFinished,
                   acPending, runs, cbLog, uiQueue, shown, connCalls>>

\* for future in as_completed(futures): result = future.result();
\* self.results.append(result).  The futures found finished at the start come
\* in no particular order (a set), the others in the order they finish
FanInNext ==
    /\ pc = "loop"
    /\ \E task \in (IF acFinished # {} THEN acFinished
                    ELSE IF acWaiter # <<>> THEN {Head(acWaiter)} ELSE {}) :
          /\ results' = Append(results, future[task])
          /\ acFinished' = acFinished \ {task}
          /\ acWaiter' = IF acFinished # {} THEN acWaiter ELSE Tail(acWaiter)
          /\ acPending' = acPending \ {task}
    /\ pc' = "stats_completed"
    /\ UNCHANGED <<pmVars, taskLog, max_workers, progress_callback, statsRef, statsHeap,
                   mode, query, combos, submitted, workQueue, worker, future, runs,
                   cbLog, uiQueue, shown, connCalls, raised>>

\* self.stats.completed += 1
StatsCompleted ==
    /\ pc = "stats_completed"
    /\ statsHeap' = [statsHeap EXCEPT ![statsRef].completed = @ + 1]
    /\ pc' = "stats_tally"
    /\ UNCHANGED <<pmVars, taskLog, max_workers, progress_callback, results, statsRef,
                   mode, query, combos, submitted, workQueue, worker, future,
                   acFinished, acWaiter, acPending, runs, cbLog, uiQueue, shown,
                   connCalls, raised>>

\* rows_fetched = result.row_count in place of rows_fetched += result.row_count
TallyOverwritesRows(s, result, m) ==
    IF Truthy(result.error)
    THEN [s EXCEPT !.errors = @ + 1]
    ELSE [s EXCEPT !.success = @ + 1,
                   !.rows_fetched = result.row_count,
                   !.rows_inserted = IF m = "streaming" THEN @ + result.rows_inserted
                                     ELSE @]

\* a tally that counts only the successes
TallyNoErrors(s, result, m) ==
    IF Truthy(result.error)
    THEN s
    ELSE [s EXCEPT !.success = @ + 1, !.rows_fetched = @ + result.row_count]

\* if result.error: errors += 1  else: success += 1; rows_fetched += row_count
\* (and rows_inserted += result.rows_inserted in execute_with_streaming)
Tally(s, result, m) ==
    IF Truthy(result.error)
    THEN [s EXCEPT !.errors = @ + 1]
    ELSE [s EXCEPT !.success = @ + 1,
                   !.rows_fetched = @ + result.row_count,
                   !.rows_inserted = IF m = "streaming" THEN @ + result.rows_inserted
                                     ELSE @]

StatsTally ==
    /\ pc = "stats_tally"
    /\ statsHeap' = [statsHeap EXCEPT
                        ![statsRef] = Tally(@, results[Len(results)], mode)]
    /\ pc' = "callback"
    /\ UNCHANGED <<pmVars, taskLog, max_workers, progress_callback, results, statsRef,
                   mode, query, combos, submitted, workQueue, worker, future,
                   acFinished, acWaiter, acPending, runs, cbLog, uiQueue, shown,
                   connCalls, raised>>

\* a callback that is skipped for a failed task
CallbackOnSuccessOnly ==
    /\ pc = "callback"
    /\ IF progress_callback # None /\ ~Truthy(results[Len(results)].error)
       THEN /\ cbLog' = Append(cbLog, View(stats))
            /\ uiQueue' = Append(uiQueue, [ref |-> statsRef, handed |-> Label(stats)])
       ELSE UNCHANGED <<cbLog, uiQueue>>
    /\ pc' = "loop"
    /\ UNCHANGED <<pmVars, taskLog, max_workers, progress_callback, results, statsRef,
                   statsHeap, mode, query, combos, submitted, workQueue, worker, future,
                   acFinished, acWaiter, acPending, runs, shown, connCalls, raised>>

\* if self.progress_callback: self.progress_callback(self.stats)
\* on_progress (gui.py) reads the stats it is handed, and defers with after()
\* an update that keeps the object and reads it when the Tk main thread runs it
Callback ==
    /\ pc = "callback"
    /\ IF progress_callback # None
       THEN /\ cbLog' = Append(cbLog, View(stats))
            /\ uiQueue' = Append(uiQueue, [ref |-> statsRef, handed |-> Label(stats)])
       ELSE UNCHANGED <<cbLog, uiQueue>>
    /\ pc' = "loop"
    /\ UNCHANGED <<pmVars, taskLog, max_workers, progress_callback, results, statsRef,
                   statsHeap, mode, query, combos, submitted, workQueue, worker, future,
                   acFinished, acWaiter, acPending, runs, shown, connCalls, raised>>

\* as_completed is exhausted; leaving the `with` block shuts the pool down
\* (shutdown(wait=True)); return self.results
Return ==
    /\ pc = "loop"
    /\ acFinished = {}
    /\ acPending = {}
    /\ Running = {}
    /\ pc' = "returned"
    /\ UNCHANGED <<pmVars, taskLog, max_workers, progress_callback, results, statsRef,
                   statsHeap, mode, query, combos, submitted, workQueue, worker, future,
                   acFinished, acWaiter, acPending, runs, cbLog, uiQueue, shown,
                   connCalls, raised>>

\* the Tk main thread runs the oldest deferred update: the lambda reads the
\* stats object it closed over
UiUpdate ==
    /\ uiQueue # <<>>
    /\ shown' = [handed |-> Head(uiQueue).handed,
                 read |-> Label(statsHeap[Head(uiQueue).ref])]
    /\ uiQueue' = Tail(uiQueue)
    /\ UNCHANGED <<pmVars, taskLog, max_workers, progress_callback, results, statsRef,
                   statsHeap, pc, mode, query, combos, submitted, workQueue, worker,
                   future, acFinished, acWaiter, acPending, runs, cbLog, connCalls,
                   raised>>

(***************************************************************************)
(* executor.py: substitute_params.  A template is a sequence of characters, *)
(* a parameter name the sequence of its characters, and params a sequence   *)
(* of <<name, value>> pairs.                                                *)
(***************************************************************************)
\* the characters of the templates: the colon, [a-zA-Z_], [0-9], other text
Chars == {":", "a", "b", "1", " "}
IdStart == {"a", "b"}
IdChar == IdStart \cup {"1"}

\* what the templates are bound with
Bindings == { <<>>,
              << << <<"a">>, "x" >> >>,
              << << <<"a">>, "x" >>, << <<"b">>, "y" >> >> }

\* params.get(name): None when the name is not a key
Get(params, name) ==
    IF \E i \in 1..Len(params) : params[i][1] = name
    THEN params[CHOOSE i \in 1..Len(params) : params[i][1] = name][2]
    ELSE None

\* [a-zA-Z0-9_]* is greedy: how many such characters follow from position i
RECURSIVE IdRun(_, _)
IdRun(q, i) ==
    IF i > Len(q) \/ q[i] \notin IdChar THEN 0 ELSE 1 + IdRun(q, i + 1)

\* re.sub(pattern, replacer, query) from position i on: the matches are taken
\* left to right, each is replaced by the marker %s and its name is appended
\* to param_names
RECURSIVE Sub(_, _)
Sub(q, i) ==
    IF i > Len(q) THEN [new_query |-> <<>>, param_names |-> <<>>]
    ELSE IF q[i] = ":" /\ i < Len(q) /\ q[i + 1] \in IdStart
         THEN LET n    == 1 + IdRun(q, i + 2)
                  rest == Sub(q, i + 1 + n)
              IN [new_query |-> <<"%s">> \o rest.new_query,
                  param_names |-> <<SubSeq(q, i + 1, i + n)>> \o rest.param_names]
         ELSE LET rest == Sub(q, i + 1)
              IN [new_query |-> <<q[i]>> \o rest.new_query,
                  param_names |-> rest.param_names]

\* the names of a list without repeats, in first-occurrence order
RECURSIVE Dedupe(_)
Dedupe(names) ==
    IF names = <<>> THEN <<>>
    ELSE LET front == Dedupe(SubSeq(names, 1, Len(names) - 1))
             last  == names[Len(names)]
         IN IF last \in Range(front) THEN front ELSE Append(front, last)

\* one argument per distinct name instead of one per occurrence
substitute_params_OncePerName(q, params) ==
    LET m == Sub(q, 1)
    IN [new_query |-> m.new_query,
        values |-> [k \in 1..Len(Dedupe(m.param_names)) |->
                       Get(params, Dedupe(m.param_names)[k])]]

\* arguments for the bound names only: an unbound placeholder gets none
substitute_params_SkipsUnbound(q, params) ==
    LET m     == Sub(q, 1)
        bound == SelectSeq(m.param_names, LAMBDA name : Get(params, name) # None)
    IN [new_query |-> m.new_query,
        values |-> [k \in 1..Len(bound) |-> Get(params, bound[k])]]

\* substitute_params
substitute_params(q, params) ==
    LET m == Sub(q, 1)
    IN [new_query |-> m.new_query,
        values |-> [k \in 1..Len(m.param_names) |-> Get(params, m.param_names[k])]]

\* a call of substitute_params(query, params) that has not returned yet
Calling(q, params) ==
    [op |-> "substitute_params", query |-> q, params |-> params,
     returned |-> FALSE, new_query |-> <<>>, values |-> <<>>]

\* the call returns new_query, values
substitute_params_returns ==
    /\ lastOp.op = "substitute_params"
    /\ ~lastOp.returned
    /\ LET r == substitute_params(lastOp.query, lastOp.params)
       IN lastOp' = [lastOp EXCEPT !.returned = TRUE,
                                   !.new_query = r.new_query,
                                   !.values = r.values]
    /\ UNCHANGED <<parameters, generated, exVars>>

\* the longest frame handed to a bulk insert, and the most rows the target
\* table holds before it
MaxRows == 2

\* what a bulk insert did: the value it returned, the number of connections
\* it opened and the rows of the target table after it
Inserted(value, connects, target) ==
    [value |-> value, connects |-> connects, target |-> target]

\* stream_insert_df with its effects; a failing sink raises in the COPY, on
\* the connection opened for it, and the transaction is rolled back
stream_insert_df_into(df, sinkOk, target) ==
    IF df = <<>> THEN Inserted(stream_insert_df(df, sinkOk), 0, target)
    ELSE IF sinkOk THEN Inserted(stream_insert_df(df, sinkOk), 1, target \o df)
    ELSE Inserted(stream_insert_df(df, sinkOk), 1, target)

\* an empty frame refused as in create_and_insert
insert_to_table_EmptyIsFailure(df, sinkOk, message, target) ==
    IF df = <<>> THEN Inserted(<<FALSE, "No data to insert", 0>>, 0, target)
    ELSE IF sinkOk THEN Inserted(<<TRUE, "Inserted rows", Len(df)>>, 1, target \o df)
    ELSE Inserted(<<FALSE, message, 0>>, 1, target)

\* output.insert_to_table; message is str(e) of the exception a failing sink
\* raises
insert_to_table(df, sinkOk, message, target) ==
    IF df = <<>> THEN Inserted(<<TRUE, "No data to insert", 0>>, 0, target)
    ELSE IF sinkOk THEN Inserted(<<TRUE, "Inserted rows", Len(df)>>, 1, target \o df)
    ELSE Inserted(<<FALSE, message, 0>>, 1, target)

\* a bulk insert called with a frame, on a sink that works or fails, with a
\* target table holding the rows `target`
Inserting(op, df, sinkOk, target) ==
    [op |-> op, df |-> df, sinkOk |-> sinkOk, before |-> target,
     returned |-> FALSE, value |-> None, connects |-> 0, target |-> target]

\* the call of stream_insert_df returns
stream_insert_df_returns ==
    /\ lastOp.op = "stream_insert_df"
    /\ ~lastOp.returned
    /\ LET r == stream_insert_df_into(lastOp.df, lastOp.sinkOk, lastOp.before)
       IN lastOp' = [lastOp EXCEPT !.returned = TRUE, !.value = r.value,
                                   !.connects = r.connects, !.target = r.target]
    /\ UNCHANGED <<parameters, generated, exVars>>

\* the call of insert_to_table returns
insert_to_table_returns ==
    /\ lastOp.op = "insert_to_table"
    /\ ~lastOp.returned
    /\ \E message \in Failures :
          LET r == insert_to_table(lastOp.df, lastOp.sinkOk, message, lastOp.before)
          IN lastOp' = [lastOp EXCEPT !.returned = TRUE, !.value = r.value,
                                      !.connects = r.connects, !.target = r.target]
    /\ UNCHANGED <<parameters, generated, exVars>>

\* the rows of a frame, each with one more column `_param_<key>` per key of
\* the combination, holding the combination's value
Tagged(rows, params) ==
    [i \in 1..Len(rows) |->
        [row |-> rows[i],
         columns |-> [j \in 1..Len(params) |->
                         << <<"_param_", params[j][1]>>, params[j][2] >>]]]

\* the concatenation without the `_param_` columns
get_combined_results_Untagged(rs) ==
    Flatten([k \in 1..Len(rs) |->
                IF rs[k].data.present /\ rs[k].data.rows # <<>>
                THEN Tagged(rs[k].data.rows, <<>>)
                ELSE <<>>])

\* ThreadedQueryExecutor.get_combined_results: pd.concat of the tagged frames
\* of the results whose data is not None and not empty, an empty frame if
\* there is none
get_combined_results(rs) ==
    Flatten([k \in 1..Len(rs) |->
                IF rs[k].data.present /\ rs[k].data.rows # <<>>
                THEN Tagged(rs[k].data.rows, rs[k].params)
                ELSE <<>>])

(***************************************************************************)
(* Specifications                                                          *)
(***************************************************************************)
\* ThreadedQueryExecutor.__init__ and an empty ParameterManager
InitExecutor(mw) ==
    /\ max_workers = mw
    /\ progress_callback = None
    /\ results = <<>>
    /\ statsHeap = <<ExecutionStats(0)>>
    /\ statsRef = 1
    /\ pc = "idle"
    /\ mode = "execute"
    /\ query = "select"
    /\ combos = <<>>
    /\ submitted = 0
    /\ workQueue = <<>>
    /\ worker = <<>>
    /\ future = <<>>
    /\ acFinished = {}
    /\ acWaiter = <<>>
    /\ acPending = {}
    /\ runs = 0
    /\ cbLog = <<>>
    /\ uiQueue = <<>>
    /\ shown = [handed |-> Label(ExecutionStats(0)), read |-> Label(ExecutionStats(0))]
    /\ connCalls = <<>>
    /\ raised = {}
    /\ taskLog = <<>>

Init ==
    /\ parameters = <<>>
    /\ lastOp = NoOp
    /\ generated = <<>>
    /\ \E mw \in 1..MaxWorkers : InitExecutor(mw)

Next ==
    \/ \E cb \in {None, "on_progress"} : set_progress_callback(cb)
    \/ \E q \in {"select", "dml"}, pcs \in CombinationLists : execute(q, pcs)
    \/ \E q \in {"select", "dml"}, pcs \in CombinationLists : execute_with_streaming(q, pcs)
    \/ Submit
    \/ AsCompletedStart
    \/ \E w \in DOMAIN worker : WorkerTake(w)
    \/ \E w \in DOMAIN worker, outcome \in {None} \cup Failures, sinkOk \in BOOLEAN :
          WorkerFinish(w, outcome, sinkOk)
    \/ FanInNext
    \/ StatsCompleted
    \/ StatsTally
    \/ Callback
    \/ Return
    \/ UiUpdate

Spec == Init /\ [][Next]_vars

\* ParameterManager.__init__
InitPM ==
    /\ parameters = <<>>
    /\ lastOp = NoOp
    /\ generated = <<>>
    /\ InitExecutor(1)

\* SpecPM follows the manager alone: no call is logged and no caller asks
\* for the combinations
Unobserved == UNCHANGED lastOp

NextPM ==
    \/ \E n \in Names, t \in PARAM_TYPES : add_parameter(n, t) /\ Unobserved
    \/ \E n \in Names : remove_parameter(n) /\ Unobserved
    \/ clear_all /\ Unobserved
    \/ \E n \in Names, v \in Values : add_value(n, v) /\ Unobserved
    \/ \E n \in Names, v \in Values : remove_value(n, v) /\ Unobserved
    \/ \E n \in Names : clear_values(n) /\ Unobserved
    \/ \E n \in Names, vs \in SeqsUpTo(Values, MaxValues) :
          set_values_raw(n, vs) /\ Unobserved

SpecPM == InitPM /\ [][NextPM]_vars

\* the call is noted
Noted(op, name, param_type) == lastOp' = Op(op, name, param_type)

\* SpecOps: the manager with a caller who notes each call
NextOps ==
    \/ \E n \in Names, t \in PARAM_TYPES :
          add_parameter(n, t) /\ Noted("add_parameter", n, t)
    \/ \E n \in Names : remove_parameter(n) /\ Noted("remove_parameter", n, "")
    \/ clear_all /\ Noted("clear_all", "", "")
    \/ \E n \in Names, v \in Values : add_value(n, v) /\ Noted("add_value", n, "")
    \/ \E n \in Names, v \in Values : remove_value(n, v) /\ Noted("remove_value", n, "")
    \/ \E n \in Names : clear_values(n) /\ Noted("clear_values", n, "")
    \/ \E n \in Names, vs \in SeqsUpTo(Values, MaxValues) :
          set_values_raw(n, vs) /\ Noted("set_values_raw", n, "")

SpecOps == InitPM /\ [][NextOps]_vars

\* the call of set_from_range is noted with its bounds
NotedRange(name, start, end) ==
    lastOp' = [op |-> "set_from_range", name |-> name, start |-> start, end |-> end]

\* SpecRange: one parameter, declared with any type, removed, and given ranges
NextRange ==
    \/ \E t \in PARAM_TYPES : add_parameter("a", t) /\ Noted("add_parameter", "a", t)
    \/ remove_parameter("a") /\ Noted("remove_parameter", "a", "")
    \/ \E start \in BoundTexts, end \in BoundTexts :
          set_from_range("a", start, end) /\ NotedRange("a", start, end)

SpecRange == InitPM /\ [][NextRange]_vars

\* the longest run of add_value calls that is followed on one parameter
MaxCalls == 3

\* the call is noted with the values given: for add_value, the values given
\* by the calls made on the parameter since it was empty
NotedValues(op, name, given) == lastOp' = [op |-> op, name |-> name, given |-> given]

\* SpecValues: a caller who fills a parameter that is empty by add_value
\* calls, one parameter at a time, or assigns its values by set_values_raw
NextValues ==
    \/ \E n \in Names, t \in PARAM_TYPES :
          add_parameter(n, t) /\ NotedValues("add_parameter", n, <<>>)
    \/ \E n \in Names : remove_parameter(n) /\ NotedValues("remove_parameter", n, <<>>)
    \/ \E n \in Names : clear_values(n) /\ NotedValues("clear_values", n, <<>>)
    \/ \E n \in Names, v \in Values :
          /\ add_value(n, v)
          /\ parameters[IndexOf(parameters, n)].values = <<>>
          /\ NotedValues("add_value", n, <<v>>)
    \/ \E n \in Names, v \in Values :
          /\ add_value(n, v)
          /\ lastOp.op = "add_value"
          /\ lastOp.name = n
          /\ Len(lastOp.given) < MaxCalls
          /\ NotedValues("add_value", n, Append(lastOp.given, v))
    \/ \E n \in Names, vs \in SeqsUpTo(Values, MaxValues) :
          set_values_raw(n, vs) /\ NotedValues("set_values_raw", n, vs)

SpecValues == InitPM /\ [][NextValues]_vars

\* the names a caller declares when the order of three parameters matters
MoreNames == Names \cup {"c"}

\* the call is noted, with the names removed so far
NotedOrder(op, name) ==
    lastOp' = [op |-> op, name |-> name,
               removed |-> IF op = "remove_parameter" /\ IndexOf(parameters, name) # 0
                           THEN lastOp.removed \cup {name}
                           ELSE lastOp.removed]

\* SpecOrder: a caller who declares up to three text parameters, removes
\* them, declares them again and gives them a value
InitOrder ==
    /\ parameters = <<>>
    /\ lastOp = [op |-> "__init__", name |-> "", removed |-> {}]
    /\ generated = <<>>
    /\ InitExecutor(1)

NextOrder ==
    \/ \E n \in MoreNames : add_parameter(n, "text") /\ NotedOrder("add_parameter", n)
    \/ \E n \in MoreNames : remove_parameter(n) /\ NotedOrder("remove_parameter", n)
    \/ \E n \in MoreNames : add_value(n, 1) /\ NotedOrder("add_value", n)

SpecOrder == InitOrder /\ [][NextOrder]_vars

\* SpecSub: substitute_params called with a template of up to MaxTemplate
\* characters and one of the bindings
InitSub ==
    /\ parameters = <<>>
    /\ generated = <<>>
    /\ InitExecutor(1)
    /\ \E q \in SeqsUpTo(Chars, MaxTemplate), params \in Bindings :
          lastOp = Calling(q, params)

NextSub == substitute_params_returns

SpecSub == InitSub /\ [][NextSub]_vars

\* SpecSink: stream_insert_df or insert_to_table called with a frame of up to
\* MaxRows rows
InitSink ==
    /\ parameters = <<>>
    /\ generated = <<>>
    /\ InitExecutor(1)
    /\ \E op \in {"stream_insert_df", "insert_to_table"},
          df \in SeqsUpTo(Values, MaxRows), sinkOk \in BOOLEAN,
          target \in SeqsUpTo(Values, MaxRows) :
          lastOp = Inserting(op, df, sinkOk, target)

NextSink ==
    \/ stream_insert_df_returns
    \/ insert_to_table_returns

SpecSink == InitSink /\ [][NextSink]_vars

\* a caller calls generate_combinations and keeps the list it gets: new dicts
\* in a new list
generate ==
    /\ generated' = generate_combinations(parameters)
    /\ UNCHANGED <<parameters, exVars>>

\* SpecKept: the manager with a caller who keeps the list of combinations it
\* generated and notes each call; every parameter is declared as text
NextKept ==
    \/ \E n \in Names : add_parameter(n, "text") /\ Noted("add_parameter", n, "text")
    \/ \E n \in Names : remove_parameter(n) /\ Noted("remove_parameter", n, "")
    \/ clear_all /\ Noted("clear_all", "", "")
    \/ \E n \in Names, v \in Values : add_value(n, v) /\ Noted("add_value", n, "")
    \/ \E n \in Names, v \in Values : remove_value(n, v) /\ Noted("remove_value", n, "")
    \/ \E n \in Names : clear_values(n) /\ Noted("clear_values", n, "")
    \/ \E n \in Names, vs \in SeqsUpTo(Values, MaxValues) :
          set_values_raw(n, vs) /\ Noted("set_values_raw", n, "")
    \/ generate /\ Noted("generate_combinations", "", "")

SpecKept == InitPM /\ [][NextKept]_vars

\* the steps of the calling thread inside execute
CallerStep ==
    \/ Submit
    \/ AsCompletedStart
    \/ FanInNext
    \/ StatsCompleted
    \/ StatsTally
    \/ Callback
    \/ Return

\* the steps of pool thread w; WorkerFinish is the connector call returning
\* or failing
WorkerStep(w) ==
    \/ WorkerTake(w)
    \/ \E outcome \in {None} \cup Failures, sinkOk \in BOOLEAN :
          WorkerFinish(w, outcome, sinkOk)

\* every thread that can run eventually runs, and every connector call
\* eventually returns or fails
LiveSpec ==
    /\ Spec
    /\ WF_vars(CallerStep)
    /\ \A w \in 1..MaxWorkers : WF_vars(WorkerStep(w))

(***************************************************************************)
(* Claims                                                                  *)
(***************************************************************************)
\* ThreadedQueryExecutor.get_error_count: results with error is not None
get_error_count(rs) == Cardinality({i \in 1..Len(rs) : rs[i].error # None})

\* ThreadedQueryExecutor.get_success_count: results with error is None
get_success_count(rs) == Cardinality({i \in 1..Len(rs) : rs[i].error = None})

\* C1: at every progress-callback invocation of a run of execute or
\* execute_with_streaming, the stats it reads have
\* completed = success + errors
C1_CompletedIsSuccessPlusErrors ==
    \A k \in 1..Len(cbLog) : cbLog[k].completed = cbLog[k].success + cbLog[k].errors

\* a streaming run on two workers whose second callback saw one failed and
\* one succeeded task
C1_Witness ==
    /\ mode = "streaming"
    /\ max_workers = 2
    /\ Len(cbLog) = 2
    /\ cbLog[2].errors = 1
    /\ cbLog[2].success = 1

\* C2: in a run with at least one combination the callback reads
\* completed = total in exactly one invocation, the last of the run (the
\* N-th); every earlier invocation reads completed < total
C2_TotalReachedOnceAtLast ==
    /\ Len(cbLog) <= N
    /\ \A k \in 1..Len(cbLog) :
          /\ cbLog[k].completed <= cbLog[k].total
          /\ cbLog[k].completed = cbLog[k].total => k = N
    /\ (pc = "returned" /\ progress_callback # None /\ N >= 1) =>
          /\ Len(cbLog) = N
          /\ cbLog[N].completed = cbLog[N].total
          /\ Cardinality({k \in 1..Len(cbLog) : cbLog[k].completed = cbLog[k].total}) = 1

\* a run of two combinations has returned with the callback registered
C2_Witness ==
    /\ pc = "returned"
    /\ progress_callback # None
    /\ N = 2
    /\ Len(cbLog) = 2

\* C3: when the connector failed for exactly one combination of N, the run
\* returns N results, one with an error and N-1 without, each of these with
\* the row_count the backend gives its combination (as in a run without
\* failure), and every task was executed once
C3_FailureIsolation ==
    (pc = "returned" /\ Cardinality(raised) = 1) =>
        /\ Len(results) = N
        /\ get_error_count(results) = 1
        /\ get_success_count(results) = N - 1
        /\ \A k \in 1..Len(results) :
              results[k].error = None =>
                  results[k].row_count = Len(Matching(results[k].params))
        /\ \A i \in 1..N : connCalls[i] = 1

\* a run of two tasks on one worker has returned; the first task failed and
\* the second fetched rows
C3_Witness ==
    /\ pc = "returned"
    /\ max_workers = 1
    /\ N = 2
    /\ raised = {1}
    /\ \E k \in 1..Len(results) : results[k].task = 2 /\ results[k].row_count > 0

\* C4: at every moment the number of tasks whose connector call is in
\* progress is at most max_workers, in execute and in execute_with_streaming
C4_BoundedParallelism ==
    Cardinality(Running) <= max_workers

\* one worker, a task in its connector call and another one waiting in the
\* queue, in a streaming run
C4_Witness ==
    /\ max_workers = 1
    /\ mode = "streaming"
    /\ Cardinality(Running) = 1
    /\ workQueue # <<>>

\* number of positions of the sequence s that hold x
Occurrences(s, x) == Cardinality({i \in 1..Len(s) : s[i] = x})

\* C5: when execute or execute_with_streaming returns, results holds one
\* QueryResult per submitted combination: as many results as combinations,
\* the same multiset of params, one result per task, and
\* stats.completed = stats.total
C5_OneResultPerCombination ==
    pc = "returned" =>
        /\ Len(results) = N
        /\ \A c \in Range(combos) \cup {results[k].params : k \in 1..Len(results)} :
              Occurrences([k \in 1..Len(results) |-> results[k].params], c)
                  = Occurrences(combos, c)
        /\ \A i \in 1..N : Cardinality({k \in 1..Len(results) : results[k].task = i}) = 1
        /\ \A k \in 1..Len(results) : results[k].params = combos[results[k].task]
        /\ stats.completed = stats.total
        /\ stats.total = N

\* a run has returned whose two combinations are equal, with both tasks
\* already finished when as_completed started
C5_Witness ==
    /\ pc = "returned"
    /\ N = 2
    /\ combos[1] = combos[2]
    /\ acWaiter = <<>>
    /\ Len(results) = 2

\* C6: once execute is entered it eventually returns, for every worker count
\* and every number of combinations, provided every connector call
\* eventually returns or fails
C6_ExecuteReturns ==
    (pc = "submit") ~> (pc = "returned")

\* a run with more combinations than workers was entered and has returned
C6_Witness ==
    /\ pc = "returned"
    /\ max_workers = 1
    /\ N = 2

\* C7: the callback is invoked once after every task completion: the k-th
\* invocation of a run reads completed = k, between two iterations there are
\* as many invocations as results, and a returned run had N invocations
C7_OneCallbackPerCompletion ==
    /\ \A k \in 1..Len(cbLog) : cbLog[k].completed = k
    /\ (progress_callback # None /\ pc \in {"loop", "returned"}) =>
          Len(cbLog) = Len(results)
    /\ (progress_callback # None /\ pc = "returned") => Len(cbLog) = N

\* a returned run of two tasks, one of them failed, with two invocations
C7_Witness ==
    /\ pc = "returned"
    /\ progress_callback # None
    /\ N = 2
    /\ Cardinality(raised) = 1
    /\ Len(cbLog) = 2

\* C8: what a deferred consumer reads from the stats it was handed at the
\* k-th completion is what the callback was handed then
C8_HandedStatsAreASnapshot ==
    shown.read = shown.handed

\* C9: stats and results are written by the calling thread only, one
\* completion at a time: while the update of a completion is under way
\* stats is exactly that one step behind results, and at the callback (and
\* between iterations) the update is entirely applied
C9_SerializedStatsUpdate ==
    /\ pc = "stats_completed" =>
          /\ stats.completed = Len(results) - 1
          /\ stats.success + stats.errors = Len(results) - 1
    /\ pc = "stats_tally" =>
          /\ stats.completed = Len(results)
          /\ stats.success + stats.errors = Len(results) - 1
    /\ pc \in {"callback", "loop", "returned"} =>
          /\ stats.completed = Len(results)
          /\ stats.success + stats.errors = Len(results)
    /\ pc = "submit" => (results = <<>> /\ stats.completed = 0)

\* the update of one completion is under way while a pool thread is in the
\* connector call of another task
C9_Witness ==
    /\ pc = "stats_tally"
    /\ Running # {}
    /\ stats.completed = 1

\* C10 as stated: in every state of the manager,
\* get_combination_count() = len(generate_combinations())
C10_CountEqualsLen ==
    get_combination_count(parameters) = Len(generate_combinations(parameters))

\* C10: in every state with at least one declared parameter
\* get_combination_count() = len(generate_combinations()); with none declared
\* the count is 0 and generate_combinations returns one combination
C10_CountEqualsLenWhenDeclared ==
    /\ parameters # <<>> =>
          get_combination_count(parameters) = Len(generate_combinations(parameters))
    /\ parameters = <<>> =>
          /\ get_combination_count(parameters) = 0
          /\ Len(generate_combinations(parameters)) = 1

\* two declared parameters, the first without values and the second with two
C10_Witness ==
    /\ Len(parameters) = 2
    /\ parameters[1].values = <<>>
    /\ Len(parameters[2].values) = 2
    /\ get_combination_count(parameters) = 2

\* the declared parameters that have values, in declaration order
WithValues == SelectSeq(parameters, LAMBDA p : p.values # <<>>)

\* the product of the numbers of a sequence
RECURSIVE Times(_)
Times(ns) == IF ns = <<>> THEN 1 ELSE Head(ns) * Times(Tail(ns))

\* the numbers of values of a sequence of parameters
Lengths(ps) == [i \in 1..Len(ps) |-> Len(ps[i].values)]

\* C11: with no declared parameter, or with every declared parameter empty,
\* generate_combinations returns exactly one combination, the empty one
C11_EmptySpaceIsOneEmptyCombination ==
    (\A i \in 1..Len(parameters) : parameters[i].values = <<>>) =>
        generate_combinations(parameters) = << <<>> >>

\* two parameters are declared and neither has a value
C11_Witness ==
    /\ Len(parameters) = 2
    /\ parameters[1].values = <<>>
    /\ parameters[2].values = <<>>
    /\ Len(generate_combinations(parameters)) = 1

\* C12: get_combination_count is the product of len(values) over the
\* parameters with values when parameters are declared, 1 when none of the
\* declared ones has values, and 0 exactly when none is declared
C12_CountIsProductOfLengths ==
    /\ parameters # <<>> =>
          get_combination_count(parameters) = Times(Lengths(WithValues))
    /\ (parameters # <<>> /\ WithValues = <<>>) =>
          get_combination_count(parameters) = 1
    /\ get_combination_count(parameters) = 0 <=> parameters = <<>>

\* two declared parameters with two values each: the count is 4
C12_Witness ==
    /\ Len(parameters) = 2
    /\ Len(parameters[1].values) = 2
    /\ Len(parameters[2].values) = 2
    /\ get_combination_count(parameters) = 4

\* the value parameter i of WithValues takes in the k-th combination of the
\* nested product: later parameters vary faster
ValueAt(k, i) ==
    LET later == SubSeq(WithValues, i + 1, Len(WithValues))
        vs    == WithValues[i].values
    IN vs[(((k - 1) \div Times(Lengths(later))) % Len(vs)) + 1]

\* C13: the combinations come in nested-product order, the earliest declared
\* parameter varying slowest and the latest fastest; a: [1, 2] and b: [1, 2]
\* declared in this order give (1,1), (1,2), (2,1), (2,2)
C13_NestedProductOrder ==
    LET combinations == generate_combinations(parameters)
    IN /\ WithValues # <<>> =>
             /\ Len(combinations) = Times(Lengths(WithValues))
             /\ \A k \in 1..Len(combinations) :
                   combinations[k] = [i \in 1..Len(WithValues) |->
                                         <<WithValues[i].name, ValueAt(k, i)>>]
       /\ ( /\ Len(parameters) = 2
            /\ parameters[1].name = "a" /\ parameters[1].values = <<1, 2>>
            /\ parameters[2].name = "b" /\ parameters[2].values = <<1, 2>> ) =>
             combinations = << << <<"a", 1>>, <<"b", 1>> >>,
                               << <<"a", 1>>, <<"b", 2>> >>,
                               << <<"a", 2>>, <<"b", 1>> >>,
                               << <<"a", 2>>, <<"b", 2>> >> >>

\* a: [1, 2] then b: [1, 2] are declared and four combinations are generated
C13_Witness ==
    /\ Len(parameters) = 2
    /\ parameters[1].name = "a" /\ parameters[1].values = <<1, 2>>
    /\ parameters[2].name = "b" /\ parameters[2].values = <<1, 2>>
    /\ Len(generate_combinations(parameters)) = 4

\* C14: when at least one declared parameter has values, the keys of every
\* combination are exactly the names of the parameters with values, and
\* there is at least one combination
C14_KeysAreParametersWithValues ==
    LET combinations == generate_combinations(parameters)
    IN WithValues # <<>> =>
          /\ Len(combinations) > 0
          /\ \A k \in 1..Len(combinations) :
                /\ {kv[1] : kv \in Range(combinations[k])} =
                      {p.name : p \in Range(WithValues)}
                /\ Len(combinations[k]) = Len(WithValues)

\* the first declared parameter has two values, the second has none, and
\* two combinations are generated
C14_Witness ==
    /\ Len(parameters) = 2
    /\ Len(parameters[1].values) = 2
    /\ parameters[2].values = <<>>
    /\ Len(generate_combinations(parameters)) = 2

\* the Parameter declared under `name`
Declared(ps, name) == ps[IndexOf(ps, name)]

\* C15: add_parameter with a name that is already declared leaves the
\* existing Parameter as it is (type, values, source) and where it is, and
\* every other parameter too, even when a different type is passed
C15_AddParameterIsIdempotent ==
    [][\A n \in Names :
          ( /\ lastOp'.op = "add_parameter"
            /\ lastOp'.name = n
            /\ IndexOf(parameters, n) # 0 ) =>
             /\ IndexOf(parameters', n) = IndexOf(parameters, n)
             /\ Declared(parameters', n) = Declared(parameters, n)
             /\ parameters' = parameters]_vars

\* the last call was add_parameter("a", "date") while "a" was declared, and
\* "a" is still the first of two parameters, a number with two values
C15_Witness ==
    /\ lastOp = Op("add_parameter", "a", "date")
    /\ Len(parameters) = 2
    /\ parameters[1].name = "a"
    /\ parameters[1].param_type = "number"
    /\ Len(parameters[1].values) = 2

\* C16: remove_parameter removes the named parameter and no other, does
\* nothing when the name is not declared, and leaves a list of combinations
\* generated before as it was
C16_RemoveParameter ==
    [][\A n \in Names :
          (lastOp'.op = "remove_parameter" /\ lastOp'.name = n) =>
             /\ IndexOf(parameters', n) = 0
             /\ \A m \in Names \ {n} :
                   IF IndexOf(parameters, m) = 0
                   THEN IndexOf(parameters', m) = 0
                   ELSE /\ IndexOf(parameters', m) # 0
                        /\ Declared(parameters', m) = Declared(parameters, m)
             /\ IndexOf(parameters, n) = 0 => parameters' = parameters
             /\ generated' = generated]_vars

\* four combinations over a and b were generated, then b was removed: the
\* kept list still has its four combinations with b
C16_Witness ==
    /\ lastOp = Op("remove_parameter", "b", "")
    /\ IndexOf(parameters, "b") = 0
    /\ Len(generated) = 4
    /\ \A k \in 1..Len(generated) : \E kv \in Range(generated[k]) : kv[1] = "b"
    /\ Len(generate_combinations(parameters)) = 2

\* the sum of f over the keys in S
RECURSIVE SumOver(_, _)
SumOver(f, S) ==
    IF S = {} THEN 0
    ELSE LET x == CHOOSE y \in S : TRUE
         IN f[x] + SumOver(f, S \ {x})

\* the tasks of the run whose connector call did not raise
Succeeded == {i \in DOMAIN taskLog : taskLog[i].outcome = None}

\* C17: when execute_with_streaming has returned no result holds data, and
\* the rows_inserted of the results and of the stats both add up to what
\* the sink reported for the tasks that succeeded
C17_StreamingKeepsNoDataAndCountsInserts ==
    (pc = "returned" /\ mode = "streaming") =>
        LET reported == SumOver([i \in Succeeded |-> taskLog[i].sink_reported],
                                Succeeded)
        IN /\ \A k \in 1..Len(results) : results[k].data = NoData
           /\ SumOver([k \in 1..Len(results) |-> results[k].rows_inserted],
                      1..Len(results)) = reported
           /\ stats.rows_inserted = reported

\* a streaming run of two SELECTs that fetched 2 rows each has returned; the
\* sink took the rows of one and failed on the other
C17_Witness ==
    /\ pc = "returned"
    /\ mode = "streaming"
    /\ Len(results) = 2
    /\ stats.rows_fetched = 4
    /\ stats.rows_inserted = 2
    /\ \E i \in Succeeded : taskLog[i].sink_called /\ taskLog[i].sink_reported = 0

\* C18: in execute (no streaming) rows_inserted is 0 in every result, and
\* in the stats at every callback and at return
C18_NoInsertsWithoutStreaming ==
    mode = "execute" =>
        /\ \A i \in DOMAIN future : future[i].rows_inserted = 0
        /\ \A k \in 1..Len(results) : results[k].rows_inserted = 0
        /\ \A c \in 1..Len(cbLog) : cbLog[c].rows_inserted = 0
        /\ stats.rows_inserted = 0

\* execute has returned two SELECT results with rows, after two callbacks
C18_Witness ==
    /\ pc = "returned"
    /\ mode = "execute"
    /\ query = "select"
    /\ Len(results) = 2
    /\ Len(cbLog) = 2
    /\ stats.rows_fetched = 4

\* C19: a task whose connector call failed gives a result with the message
\* of the failure as error, row_count 0, no data and rows_inserted 0; in every
\* result an error excludes data, rows and inserts
C19_FailureResult ==
    /\ \A i \in DOMAIN future :
          taskLog[i].outcome # None =>
             /\ future[i].error = taskLog[i].outcome
             /\ future[i].row_count = 0
             /\ future[i].data = NoData
             /\ future[i].rows_inserted = 0
    /\ \A k \in 1..Len(results) :
          results[k].error # None =>
             /\ results[k].data = NoData
             /\ results[k].row_count = 0
             /\ results[k].rows_inserted = 0

\* one task of an execute run failed with "connection refused" and its
\* result is collected next to a result with rows
C19_Witness ==
    /\ mode = "execute"
    /\ Len(results) = 2
    /\ \E k \in 1..2 : results[k].error = "connection refused"
    /\ \E k \in 1..2 : results[k].error = None /\ results[k].row_count = 2

\* C20: the result of a task of execute whose connector call succeeded has
\* no error; for a SELECT data holds the rows of the result set and
\* row_count is their number, for a DML statement data is None and row_count
\* is the number of affected rows
C20_SuccessResult ==
    mode = "execute" =>
        \A i \in DOMAIN future :
           taskLog[i].outcome = None =>
              /\ future[i].error = None
              /\ query = "select" =>
                    /\ future[i].data = DataFrame(Matching(combos[i]))
                    /\ future[i].row_count = Len(future[i].data.rows)
              /\ query = "dml" =>
                    /\ future[i].data = NoData
                    /\ future[i].row_count = Len(Matching(combos[i]))

\* a DML statement of an execute run affected two rows
C20_Witness ==
    /\ mode = "execute"
    /\ query = "dml"
    /\ \E k \in 1..Len(results) :
          /\ results[k].error = None
          /\ results[k].data = NoData
          /\ results[k].row_count = 2

\* the tasks of the run whose connector call raised
Failed == DOMAIN taskLog \ Succeeded

\* C21 as stated: when execute or execute_with_streaming has returned there
\* is one result per task, the result of every failed task carries the
\* message of its failure, and stats.errors is the number of failed tasks
C21_FailuresAreContainedAndCounted ==
    pc = "returned" =>
        /\ Len(results) = N
        /\ \A i \in Failed :
              Cardinality({k \in 1..Len(results) :
                              /\ results[k].task = i
                              /\ results[k].error = taskLog[i].outcome}) = 1
        /\ stats.errors = Cardinality(Failed)

\* C22 as stated: a run with zero combinations is rejected, it never
\* returns normally
C22_EmptyRunIsRejected ==
    ~(pc = "returned" /\ N = 0)

\* C23: a run starts with a stats record of total = len(combinations) and
\* every counter 0; the total of a record never changes; a record changes
\* only in the update that follows the collection of one result, once per
\* result, and so never once the run has returned
C23_StatsLifecycle ==
    [][/\ \A r \in DOMAIN statsHeap :
             /\ statsHeap'[r].total = statsHeap[r].total
             /\ statsHeap'[r] # statsHeap[r] =>
                   /\ r = statsRef
                   /\ statsRef' = statsRef
                   /\ pc \in {"stats_completed", "stats_tally"}
                   /\ statsHeap'[r].completed = Len(results)
       /\ pc' = "submit" /\ pc # "submit" =>
             statsHeap'[statsRef'] = ExecutionStats(Len(combos'))
       /\ pc = "returned" => statsHeap'[statsRef] = statsHeap[statsRef]]_vars

\* a second run has returned after one completion, and the record of the
\* first run still holds its two completions
C23_Witness ==
    /\ pc = "returned"
    /\ runs = 2
    /\ Len(statsHeap) = 3
    /\ statsHeap[2].total = 2 /\ statsHeap[2].completed = 2
    /\ stats.total = 1 /\ stats.completed = 1

\* C24 as stated: each completion adds 1 to completed; a result with an
\* error adds 1 to errors and nothing else, a result without error adds 1
\* to success, its row_count to rows_fetched and its rows_inserted to
\* rows_inserted
C24_StatsUpdateRule ==
    [][/\ (pc = "stats_completed" /\ pc' = "stats_tally") =>
             statsHeap'[statsRef] = [stats EXCEPT !.completed = @ + 1]
       /\ (pc = "stats_tally" /\ pc' = "callback") =>
             LET result == results[Len(results)]
             IN statsHeap'[statsRef] =
                   IF result.error # None
                   THEN [stats EXCEPT !.errors = @ + 1]
                   ELSE [stats EXCEPT !.success = @ + 1,
                                      !.rows_fetched = @ + result.row_count,
                                      !.rows_inserted = @ + result.rows_inserted]]_vars

\* the results that contribute rows to the combined result
Contributing(rs) ==
    {k \in 1..Len(rs) : rs[k].error = None /\ rs[k].data.present /\ rs[k].data.rows # <<>>}

\* C25: the combined result of results that all succeeded with a table has
\* sum(row_count) rows; every row comes from a result without error and
\* carries one column _param_k with the combination's value for each key k
\* of that result's combination; the other results contribute no row, and
\* the combined result is empty when no result contributes
C25_CombinedResults ==
    LET combined == get_combined_results(results)
    IN /\ (\A k \in 1..Len(results) :
              results[k].error = None /\ results[k].data.present) =>
             Len(combined) = SumOver([k \in 1..Len(results) |-> results[k].row_count],
                                     1..Len(results))
       /\ Len(combined) = SumOver([k \in Contributing(results) |->
                                      Len(results[k].data.rows)],
                                  Contributing(results))
       /\ \A r \in 1..Len(combined) :
             \E k \in Contributing(results) :
                /\ combined[r].row \in Range(results[k].data.rows)
                /\ Len(combined[r].columns) = Len(results[k].params)
                /\ \A kv \in Range(results[k].params) :
                      << <<"_param_", kv[1]>>, kv[2] >> \in Range(combined[r].columns)
       /\ Contributing(results) = {} => combined = <<>>

\* two SELECTs bound to a = 2 returned two rows each: the combined result
\* has four rows tagged _param_a = 2
C25_Witness ==
    /\ pc = "returned"
    /\ mode = "execute"
    /\ Len(results) = 2
    /\ Contributing(results) = {1, 2}
    /\ Len(get_combined_results(results)) = 4
    /\ get_combined_results(results)[4].columns = << << <<"_param_", "a">>, 2 >> >>

\* the run done one task after the other in submission order, each task with
\* the outcome the connector had for it
SequentialResults ==
    [i \in 1..N |-> execute_single_query(i, query, combos[i], taskLog[i].outcome)]

RECURSIVE TallyAll(_, _)
TallyAll(s, rs) ==
    IF rs = <<>> THEN s ELSE TallyAll(Tally(s, Head(rs), "execute"), Tail(rs))

\* C26: when execute has returned, with any worker count, the combined
\* result has the same rows as many times as that of the sequential run in
\* submission order, and success, errors and rows_fetched are those of the
\* sequential run
C26_SameAsSequentialRun ==
    (pc = "returned" /\ mode = "execute") =>
        LET concurrent == get_combined_results(results)
            sequential == get_combined_results(SequentialResults)
            final      == TallyAll(ExecutionStats(N), SequentialResults)
        IN /\ \A x \in Range(concurrent) \cup Range(sequential) :
                 Occurrences(concurrent, x) = Occurrences(sequential, x)
           /\ stats.success = final.success
           /\ stats.errors = final.errors
           /\ stats.rows_fetched = final.rows_fetched

\* a run with two workers has returned the result of the second combination
\* before that of the first, and only the second has rows
C26_Witness ==
    /\ pc = "returned"
    /\ mode = "execute"
    /\ max_workers = 2
    /\ Len(results) = 2
    /\ results[1].task = 2 /\ results[1].row_count = 2
    /\ results[2].task = 1 /\ results[2].row_count = 0
    /\ results[2].error = None
    /\ Len(get_combined_results(results)) = 2

\* the k-th smallest element of a set of numbers
Kth(S, k) == CHOOSE x \in S : Cardinality({y \in S : y < x}) = k - 1

\* where the placeholders of template q start: a colon before a character
\* that can start a name
Placeholders(q) == {i \in 1..(Len(q) - 1) : q[i] = ":" /\ q[i + 1] \in IdStart}

\* where the placeholder that starts at p ends: the name runs as far as
\* name characters go
EndOf(q, p) ==
    CHOOSE e \in (p + 1)..Len(q) :
        /\ \A j \in (p + 1)..e : q[j] \in IdChar
        /\ e = Len(q) \/ q[e + 1] \notin IdChar

\* the positions of q that belong to no placeholder
Outside(q) ==
    {j \in 1..Len(q) : ~\E p \in Placeholders(q) : p <= j /\ j <= EndOf(q, p)}

\* C27: substitute_params puts one marker in place of every placeholder
\* occurrence and leaves the rest of the template as it is, and returns one
\* argument per occurrence: the i-th is the value bound to the name of the
\* i-th occurrence, so a repeated name repeats its value
C27_OneArgumentPerOccurrence ==
    (lastOp.op = "substitute_params" /\ lastOp.returned) =>
        LET q      == lastOp.query
            P      == Placeholders(q)
            text   == SelectSeq(lastOp.new_query, LAMBDA c : c # "%s")
        IN /\ Len(lastOp.values) = Cardinality(P)
           /\ Occurrences(lastOp.new_query, "%s") = Cardinality(P)
           /\ Placeholders(lastOp.new_query) = {}
           /\ text = [k \in 1..Cardinality(Outside(q)) |-> q[Kth(Outside(q), k)]]
           /\ \A i \in 1..Cardinality(P) :
                 /\ lastOp.values[i] =
                       Get(lastOp.params, SubSeq(q, Kth(P, i) + 1, EndOf(q, Kth(P, i))))
                 /\ lastOp.new_query[Kth(P, i) - (SumOver([p \in P |-> EndOf(q, p) - p],
                                                         {p \in P : p < Kth(P, i)}))]
                       = "%s"

\* ":a:a" with a bound to x has returned "%s%s" and the arguments x, x
C27_Witness ==
    /\ lastOp.op = "substitute_params"
    /\ lastOp.returned
    /\ lastOp.query = <<":", "a", ":", "a">>
    /\ lastOp.new_query = <<"%s", "%s">>
    /\ lastOp.values = <<"x", "x">>

\* the day after a day of the calendar
NextDay(dt) ==
    IF dt.d < DaysInMonth(dt.y, dt.m) THEN Date(dt.y, dt.m, dt.d + 1)
    ELSE IF dt.m < 12 THEN Date(dt.y, dt.m + 1, 1)
    ELSE Date(dt.y + 1, 1, 1)

\* a day is not after another
NotAfter(d1, d2) ==
    \/ d1.y < d2.y
    \/ d1.y = d2.y /\ d1.m < d2.m
    \/ d1.y = d2.y /\ d1.m = d2.m /\ d1.d <= d2.d

\* the text of a bound is a day of the calendar written in the declared format
IsDay(text) ==
    /\ text.kind = "date"
    /\ text.fmt = date_format
    /\ text.m \in 1..12
    /\ text.d \in 1..DaysInMonth(text.y, text.m)

\* C28: set_from_range on a date parameter sets the values to the days from
\* start to end, both included, each the day after the one before (none
\* when start is after end), 2024-01-01 to 2024-01-03 giving exactly these
\* three days, and to the empty list when a bound is not a day written in
\* the declared format
C28_DateRange ==
    [][(lastOp'.op = "set_from_range"
           /\ Declared(parameters, lastOp'.name).param_type = "date") =>
          LET start == lastOp'.start
              end   == lastOp'.end
              vs    == Declared(parameters', lastOp'.name).values
              first == Date(start.y, start.m, start.d)
              last  == Date(end.y, end.m, end.d)
          IN /\ (IsDay(start) /\ IsDay(end) /\ NotAfter(first, last)) =>
                   /\ vs # <<>>
                   /\ vs[1] = first
                   /\ vs[Len(vs)] = last
                   /\ \A k \in 1..(Len(vs) - 1) : vs[k + 1] = NextDay(vs[k])
             /\ (IsDay(start) /\ IsDay(end) /\ ~NotAfter(first, last)) => vs = <<>>
             /\ (start = DateText(date_format, 2024, 1, 1)
                    /\ end = DateText(date_format, 2024, 1, 3)) =>
                   vs = <<Date(2024, 1, 1), Date(2024, 1, 2), Date(2024, 1, 3)>>
             /\ (~IsDay(start) \/ ~IsDay(end)) => vs = <<>>]_vars

\* the range 2024-02-28 to 2024-03-01 was set on a date parameter: three
\* days, the 29th of February in the middle
C28_Witness ==
    /\ lastOp.op = "set_from_range"
    /\ lastOp.start = DateText(date_format, 2024, 2, 28)
    /\ lastOp.end = DateText(date_format, 2024, 3, 1)
    /\ Declared(parameters, "a").param_type = "date"
    /\ Declared(parameters, "a").values =
          <<Date(2024, 2, 28), Date(2024, 2, 29), Date(2024, 3, 1)>>

C30_InvalidBoundEmptiesValues ==
    [][lastOp'.op = "set_from_range" =>
          LET start  == lastOp'.start
              end    == lastOp'.end
              before == Declared(parameters, lastOp'.name)
              after  == Declared(parameters', lastOp'.name)
          IN /\ (before.param_type = "date" /\ (~IsDay(start) \/ ~IsDay(end))) =>
                   after.values = <<>>
             /\ (before.param_type = "number"
                    /\ (start.kind # "int" \/ end.kind # "int")) =>
                   after.values = <<>>]_vars

\* the place of the first occurrence of x in s
FirstIndex(s, x) == CHOOSE i \in 1..Len(s) : s[i] = x /\ \A j \in 1..(i - 1) : s[j] # x

\* C31: after add_value calls on a parameter that was empty, the values hold
\* each value given exactly once, in the order in which the values were
\* first given; after set_values_raw the values are the sequence given,
\* duplicates included
C31_AddValueSuppressesDuplicates ==
    /\ lastOp.op = "add_value" =>
          LET vals == Declared(parameters, lastOp.name).values
          IN /\ \A i, j \in 1..Len(vals) : i # j => vals[i] # vals[j]
             /\ Range(vals) = Range(lastOp.given)
             /\ \A i, j \in 1..Len(vals) :
                   i < j => FirstIndex(lastOp.given, vals[i])
                               < FirstIndex(lastOp.given, vals[j])
    /\ lastOp.op = "set_values_raw" =>
          Declared(parameters, lastOp.name).values = lastOp.given

\* 1 was given twice and then 2: the values are 1, 2
C31_Witness ==
    /\ lastOp.op = "add_value"
    /\ lastOp.name = "a"
    /\ lastOp.given = <<1, 1, 2>>
    /\ Declared(parameters, "a").values = <<1, 2>>

\* C32: a task's connector call is made once, for the task alone: no task
\* is called twice, a task whose call raised is neither queued nor taken
\* again in the run, and when the run has returned the number of connector
\* calls is len(param_combinations), one for each task
C32_OneConnectorCallPerTask ==
    /\ \A i \in DOMAIN connCalls : connCalls[i] <= 1
    /\ \A i \in raised :
          /\ connCalls[i] = 1
          /\ i \notin Range(workQueue)
          /\ \A w \in DOMAIN worker : worker[w] # i
    /\ pc = "returned" =>
          /\ \A i \in 1..Len(combos) : connCalls[i] = 1
          /\ SumOver(connCalls, DOMAIN connCalls) = Len(combos)

\* a run of two tasks has returned: both connector calls raised, and each
\* task was called once
C32_Witness ==
    /\ pc = "returned"
    /\ Len(combos) = 2
    /\ raised = {1, 2}
    /\ SumOver(connCalls, DOMAIN connCalls) = 2
    /\ Len(results) = 2

\* C33: a bulk insert of an empty frame opens no connection and leaves the
\* target table as it was; stream_insert_df returns 0 and insert_to_table
\* returns (True, message, 0)
C33_EmptyInsertIsNoOp ==
    (lastOp.op \in {"stream_insert_df", "insert_to_table"}
        /\ lastOp.returned /\ lastOp.df = <<>>) =>
        /\ lastOp.connects = 0
        /\ lastOp.target = lastOp.before
        /\ lastOp.op = "stream_insert_df" => lastOp.value = 0
        /\ lastOp.op = "insert_to_table" =>
              /\ lastOp.value[1] = TRUE
              /\ lastOp.value[3] = 0

\* insert_to_table has returned from a call with an empty frame, on a sink
\* that would have failed; the target table holds the row it held
C33_Witness ==
    /\ lastOp.op = "insert_to_table"
    /\ lastOp.returned
    /\ lastOp.df = <<>>
    /\ ~lastOp.sinkOk
    /\ lastOp.before = <<1>>
    /\ lastOp.target = <<1>>
    /\ lastOp.value = <<TRUE, "No data to insert", 0>>

\* C34 as stated: when a run has returned, stats.errors is get_error_count()
\* and stats.success is get_success_count(), whatever the outcome of each
\* task was
C34_TalliesAgree ==
    pc = "returned" =>
        /\ stats.errors = get_error_count(results)
        /\ stats.success = get_success_count(results)

\* the tasks of a streaming run that fetched rows and whose bulk insert
\* failed: stream_insert_df was called on a frame with rows and returned 0
SinkFailed ==
    {i \in DOMAIN taskLog :
        /\ taskLog[i].sink_called
        /\ Matching(combos[i]) # <<>>
        /\ taskLog[i].sink_reported = 0}

\* C35: a task whose bulk insert failed has a result without error and
\* without data, with row_count the number of rows fetched and
\* rows_inserted 0; it is tallied as a success, so when such a run has
\* returned stats.errors counts the failed connector calls only and
\* stats.rows_inserted < stats.rows_fetched
C35_SinkFailureIsNotAnError ==
    /\ \A i \in SinkFailed :
          /\ future[i].error = None
          /\ future[i].data = NoData
          /\ future[i].row_count = Len(Matching(combos[i]))
          /\ future[i].rows_inserted = 0
          /\ \A k \in 1..Len(results) : results[k].task = i => results[k] = future[i]
    /\ (pc = "returned" /\ SinkFailed # {}) =>
          /\ stats.success >= Cardinality(SinkFailed)
          /\ stats.success + stats.errors = N
          /\ stats.errors = Cardinality({i \in Failed : Truthy(taskLog[i].outcome)})
          /\ stats.rows_inserted < stats.rows_fetched

\* a streaming run of one SELECT has returned: it fetched 2 rows, the bulk
\* insert failed, and the task is counted as a success
C35_Witness ==
    /\ pc = "returned"
    /\ mode = "streaming"
    /\ N = 1
    /\ SinkFailed = {1}
    /\ stats.success = 1
    /\ stats.errors = 0
    /\ stats.rows_fetched = 2
    /\ stats.rows_inserted = 0

\* C36 as stated: with max_workers == 1 the results of a run that has
\* returned are in the order of the submitted combinations
C36_OneWorkerKeepsSubmissionOrder ==
    (pc = "returned" /\ max_workers = 1) =>
        \A k \in 1..Len(results) : results[k].task = k

\* C37: every run starts from an empty results list and a new stats record
\* with total = len(combinations) and every counter 0; a stats record other
\* than the run's own is never changed; and when the n-th run has returned,
\* results, stats, the counts and the combined result are those of the
\* n-th run's combinations alone
C37_RunsAreIndependent ==
    [][/\ runs' # runs =>
             /\ results' = <<>>
             /\ statsRef' \notin DOMAIN statsHeap
             /\ statsHeap'[statsRef'] = ExecutionStats(Len(combos'))
       /\ \A r \in DOMAIN statsHeap : r # statsRef' => statsHeap'[r] = statsHeap[r]
       /\ pc' = "returned" =>
             LET n == Len(combos')
             IN /\ Len(results') = n
                /\ \A i \in 1..n :
                      Cardinality({k \in 1..Len(results') :
                                      /\ results'[k].task = i
                                      /\ results'[k].params = combos'[i]}) = 1
                /\ statsHeap'[statsRef'].total = n
                /\ statsHeap'[statsRef'].completed = n
                /\ statsHeap'[statsRef'].success + statsHeap'[statsRef'].errors = n
                /\ get_error_count(results') + get_success_count(results') = n
                /\ get_error_count(results') = Cardinality(raised')
                /\ Len(get_combined_results(results')) =
                      SumOver([k \in 1..Len(results') |->
                                  IF results'[k].data.present
                                  THEN Len(Matching(results'[k].params)) ELSE 0],
                              1..Len(results'))]_vars

\* the second run of an executor has returned: the first run had two tasks,
\* one of which failed; the second had one task, which fetched rows, and
\* nothing of the first run is left in results, stats or the counts
C37_Witness ==
    /\ pc = "returned"
    /\ runs = 2
    /\ statsHeap[2].total = 2 /\ statsHeap[2].errors = 1
    /\ Len(combos) = 1
    /\ Len(results) = 1
    /\ stats.total = 1 /\ stats.errors = 0 /\ stats.success = 1
    /\ get_error_count(results) = 0
    /\ get_combined_results(results) # <<>>

\* the names bound by a combination
Keys(params) == {params[i][1] : i \in 1..Len(params)}

\* C38: a placeholder whose name the combination does not bind gets None as
\* its argument: every call of substitute_params returns, with one argument
\* per placeholder occurrence, None for each occurrence of an unbound name
\* and for every occurrence when the combination is {}
C38_UnboundPlaceholderIsNull ==
    /\ (lastOp.op = "substitute_params" /\ ~lastOp.returned) =>
          ENABLED substitute_params_returns
    /\ (lastOp.op = "substitute_params" /\ lastOp.returned) =>
          LET q == lastOp.query
              P == Placeholders(q)
              name(i) == SubSeq(q, Kth(P, i) + 1, EndOf(q, Kth(P, i)))
              unbound == {i \in 1..Cardinality(P) : name(i) \notin Keys(lastOp.params)}
          IN /\ Len(lastOp.values) = Cardinality(P)
             /\ {i \in 1..Len(lastOp.values) : lastOp.values[i] = None} = unbound
             /\ lastOp.params = <<>> => unbound = 1..Cardinality(P)

\* ":a:b" with only a bound has returned "%s%s" and the arguments x, None
C38_Witness ==
    /\ lastOp.op = "substitute_params"
    /\ lastOp.returned
    /\ lastOp.query = <<":", "a", ":", "b">>
    /\ Keys(lastOp.params) = {<<"a">>}
    /\ lastOp.new_query = <<"%s", "%s">>
    /\ lastOp.values = <<"x", None>>

\* the names of the declared parameters, in dict order
NamesOf(ps) == [i \in 1..Len(ps) |-> ps[i].name]

\* C39: a parameter declared under a name that is not declared comes last,
\* with no values, also when the name was declared and removed before;
\* add_parameter with a declared name changes nothing; add_parameter and
\* remove_parameter leave the other parameters in the order they were in
C39_InsertionOrder ==
    [][LET n      == lastOp'.name
           before == NamesOf(parameters)
           after  == NamesOf(parameters')
       IN /\ lastOp'.op \in {"add_parameter", "remove_parameter"} =>
                SelectSeq(after, LAMBDA x : x # n) = SelectSeq(before, LAMBDA x : x # n)
          /\ (lastOp'.op = "add_parameter" /\ n \notin Range(before)) =>
                /\ after = Append(before, n)
                /\ parameters'[Len(parameters')].values = <<>>
          /\ (lastOp'.op = "add_parameter" /\ n \in Range(before)) =>
                parameters' = parameters
          /\ lastOp'.op = "remove_parameter" => n \notin Range(after)]_vars

\* "a" was declared first, given values and removed; declared again, it is
\* the last of three parameters and has no values, while b and c kept
\* their order and their values
C39_Witness ==
    /\ lastOp.op = "add_parameter"
    /\ lastOp.name = "a"
    /\ "a" \in lastOp.removed
    /\ NamesOf(parameters) = <<"b", "c", "a">>
    /\ parameters[1].values # <<>>
    /\ parameters[3].values = <<>>

====
